---- MODULE Spec2Model ----
(***************************************************************************)
(* Model of nom-span's Spanned<&str> (src/src/lib.rs): a view over the     *)
(* remaining input together with line, column and byte offset, and the     *)
(* narrowing operations that derive a new span from an old one.            *)
(*                                                                         *)
(* A &str is modelled by the address of its first byte (ptr, relative to   *)
(* the start of the original input) and its bytes.  Bytes are integers     *)
(* 0..255; the input is valid UTF-8 and a str is only ever cut on a char   *)
(* boundary (cutting elsewhere panics and produces no span).               *)
(***************************************************************************)
EXTENDS Integers, Sequences, FiniteSets

VARIABLES
    input,      \* the bytes handed to Spanned::new
    span,       \* the span the parser currently holds
    call,       \* the last operation: its receiver, arguments and result
    scanned,    \* per input byte, how often Memchr has read it
    dropped     \* leading bytes the narrowings so far were asked to drop

vars == <<input, span, call, scanned, dropped>>

(***************************************************************************)
(* Bounds and the inputs drawn at construction.                            *)
(***************************************************************************)
MaxLen == 4

NL == 10

\* the characters inputs are built from, as their UTF-8 encodings:
\* '\n', 'a', U+00E9 (2 bytes), U+1F64C (4 bytes)
CharSet == { <<10>>, <<97>>, <<195, 169>>, <<240, 159, 153, 140>> }

\* "test\n" (tests/str.rs:37) and the single 4-byte code point of tests/str.rs:15
TestInputs == { <<116, 101, 115, 116, 10>>, <<240, 159, 153, 140>> }

RECURSIVE Strs(_)
Strs(n) ==
    {<<>>} \cup UNION { { c \o s : s \in Strs(n - Len(c)) } :
                        c \in { x \in CharSet : Len(x) <= n } }

Inputs == Strs(MaxLen) \cup TestInputs

\* predicates over chars handed to the split_at_position family
IsLineEnding == { <<10>>, <<13>> }
IsLetterA    == { <<97>> }
IsNonAscii   == { <<195, 169>>, <<240, 159, 153, 140>> }
IsAnyChar    == CharSet \cup { <<116>>, <<101>>, <<115>> }
IsNoChar     == {}
Predicates   == { IsLineEnding, IsLetterA, IsNonAscii, IsAnyChar, IsNoChar }

(***************************************************************************)
(* &str primitives the wrapper forwards to.                                *)
(***************************************************************************)
Max(S) == CHOOSE x \in S : \A y \in S : y <= x

IsContinuation(b) == b \div 64 = 2

\* str::is_char_boundary on a valid UTF-8 str
IsCharBoundary(bytes, i) ==
    \/ i = 0
    \/ i = Len(bytes)
    \/ i \in 1..(Len(bytes) - 1) /\ ~IsContinuation(bytes[i + 1])

\* width of the encoding announced by a leading byte
Utf8Width(b) ==
    IF b < 128 THEN 1 ELSE IF b < 224 THEN 2 ELSE IF b < 240 THEN 3 ELSE 4

\* ranges: RangeFrom (lo..), RangeTo (..hi), Range (lo..hi), RangeFull (..)
RangeFrom(lo)  == [kind |-> "from", lo |-> lo, hi |-> 0]
RangeTo(hi)    == [kind |-> "to", lo |-> 0, hi |-> hi]
Range(lo, hi)  == [kind |-> "range", lo |-> lo, hi |-> hi]
RangeFull      == [kind |-> "full", lo |-> 0, hi |-> 0]
NoRange        == [kind |-> "none", lo |-> 0, hi |-> 0]

RangeLo(d, r) == IF r.kind \in {"from", "range"} THEN r.lo ELSE 0
RangeHi(d, r) == IF r.kind \in {"to", "range"} THEN r.hi ELSE Len(d.bytes)

\* <&str as Slice<R>>::slice is defined (does not panic) on these ranges
ValidRange(d, r) ==
    /\ RangeLo(d, r) <= RangeHi(d, r)
    /\ RangeHi(d, r) <= Len(d.bytes)
    /\ IsCharBoundary(d.bytes, RangeLo(d, r))
    /\ IsCharBoundary(d.bytes, RangeHi(d, r))

StrSlice(d, r) ==
    [ptr |-> d.ptr + RangeLo(d, r),
     bytes |-> SubSeq(d.bytes, RangeLo(d, r) + 1, RangeHi(d, r))]

\* <&str as Offset>::offset: distance between the two first bytes
StrOffset(first, second) == second.ptr - first.ptr

InputLen(d) == Len(d.bytes)

\* <&str as InputIter>::position: byte index of the first char satisfying
\* the predicate, or -1 for None
RECURSIVE PositionFrom(_, _, _)
PositionFrom(bytes, i, P) ==
    IF i >= Len(bytes) THEN -1
    ELSE LET w == Utf8Width(bytes[i + 1])
         IN IF SubSeq(bytes, i + 1, i + w) \in P THEN i
            ELSE PositionFrom(bytes, i + w, P)

Position(d, P) == PositionFrom(d.bytes, 0, P)

\* Memchr::new(needle, haystack) run to exhaustion: the indices of needle
Memchr(needle, haystack) ==
    { i \in 0..(Len(haystack) - 1) : haystack[i + 1] = needle }

\* bytecount::num_chars: the bytes that are not UTF-8 continuation bytes
NumChars(bytes) ==
    Cardinality({ i \in 1..Len(bytes) : ~IsContinuation(bytes[i]) })

(***************************************************************************)
(* Spanned                                                                 *)
(***************************************************************************)
New(data, handle_utf8) ==
    [data |-> [ptr |-> 0, bytes |-> data],
     line |-> 1, col |-> 1, offset |-> 0, handle_utf8 |-> handle_utf8]

\* placeholder for "no span in this slot" (line 0 is no position)
NoSpan ==
    [data |-> [ptr |-> 0, bytes |-> <<>>],
     line |-> 0, col |-> 0, offset |-> 0, handle_utf8 |-> FALSE]

\* seeded fault: equality that looks at the content only
SpanEq_DataOnly(a, b) == a.data.bytes = b.data.bytes

\* #[derive(PartialEq, Eq)]: field by field; &str compares by content
SpanEq(a, b) ==
    /\ a.data.bytes = b.data.bytes
    /\ a.line = b.line
    /\ a.col = b.col
    /\ a.offset = b.offset
    /\ a.handle_utf8 = b.handle_utf8

\* the dropped prefix of self.data
OldData(self, range) ==
    LET next_data == StrSlice(self.data, range)
        offset    == StrOffset(self.data, next_data)
    IN StrSlice(self.data, RangeTo(offset))

\* seeded fault: the position restarts as in new()
Unmoved_Fresh(self, next_data) ==
    [data |-> next_data, line |-> 1, col |-> 1,
     offset |-> 0, handle_utf8 |-> self.handle_utf8]

\* slice(), offset == 0: the position is copied
Unmoved(self, next_data) ==
    [data |-> next_data, line |-> self.line, col |-> self.col,
     offset |-> self.offset, handle_utf8 |-> self.handle_utf8]

\* seeded fault: the first newline found is kept, not the last
LastIndex_FirstNewline(new_line_iter) ==
    IF new_line_iter = {} THEN 0
    ELSE (CHOOSE x \in new_line_iter : \A y \in new_line_iter : x <= y) + 1

\* slice(): index just past the last newline found, 0 when none was found
LastIndex(new_line_iter) ==
    IF new_line_iter = {} THEN 0 ELSE Max(new_line_iter) + 1

\* seeded fault: bytes are counted whatever handle_utf8 says
ColCount_Bytes(self, old_data, last_index) ==
    Len(old_data.bytes) - last_index

\* slice(): columns covered by old_data after its last newline
ColCount(self, old_data, last_index) ==
    IF self.handle_utf8
    THEN NumChars(SubSeq(old_data.bytes, last_index + 1, Len(old_data.bytes)))
    ELSE Len(old_data.bytes) - last_index

\* seeded fault: the column is carried over a newline
NewCol_NoReset(self, lines_to_add, col) == self.col + col

\* slice(): the column of the new span
NewCol(self, lines_to_add, col) ==
    IF lines_to_add = 0 THEN self.col + col ELSE col + 1

\* seeded fault: the receiver's offset is forgotten
NewOffset_NotAccumulated(self, offset) == offset

\* slice(): the byte offset of the new span
NewOffset(self, offset) == self.offset + offset

Slice(self, range) ==
    LET next_data == StrSlice(self.data, range)
        offset    == StrOffset(self.data, next_data)
        old_data  == OldData(self, range)
        new_line_iter == Memchr(NL, old_data.bytes)
        lines_to_add  == Cardinality(new_line_iter)
        last_index    == LastIndex(new_line_iter)
        col           == ColCount(self, old_data, last_index)
    IN IF offset = 0
       THEN Unmoved(self, next_data)
       ELSE [data |-> next_data,
             line |-> self.line + lines_to_add,
             col |-> NewCol(self, lines_to_add, col),
             offset |-> NewOffset(self, offset),
             handle_utf8 |-> self.handle_utf8]

\* seeded fault: the scan restarts at the first byte of the original input
MemchrScan_FromInputStart(self, range) ==
    LET next_data == StrSlice(self.data, range)
        offset    == StrOffset(self.data, next_data)
    IN IF offset = 0 THEN {} ELSE 0..(self.data.ptr + offset - 1)

\* addresses of the bytes one slice() call hands to Memchr
MemchrScan(self, range) ==
    LET next_data == StrSlice(self.data, range)
        offset    == StrOffset(self.data, next_data)
        old_data  == OldData(self, range)
    IN IF offset = 0 THEN {}
       ELSE { old_data.ptr + i : i \in 0..(Len(old_data.bytes) - 1) }

Take(self, count) == Slice(self, RangeTo(count))

\* <<remainder, prefix>>
TakeSplit(self, count) ==
    << Slice(self, RangeFrom(count)), Slice(self, RangeTo(count)) >>

\* IResult values
Ok(pair)      == [kind |-> "Ok", rem |-> pair[1], pre |-> pair[2],
                  err |-> NoSpan, needed |-> 0]
Incomplete(n) == [kind |-> "Incomplete", rem |-> NoSpan, pre |-> NoSpan,
                  err |-> NoSpan, needed |-> n]
Error(s)      == [kind |-> "Error", rem |-> NoSpan, pre |-> NoSpan,
                  err |-> s, needed |-> 0]

\* seeded fault: the matching char is consumed with the prefix
split_at_position_Consuming(self, P) ==
    LET n == Position(self.data, P)
    IN IF n >= 0
       THEN Ok(TakeSplit(self, n + Utf8Width(self.data.bytes[n + 1])))
       ELSE Incomplete(1)

split_at_position(self, P) ==
    LET n == Position(self.data, P)
    IN IF n >= 0 THEN Ok(TakeSplit(self, n)) ELSE Incomplete(1)

split_at_position1(self, P) ==
    LET n == Position(self.data, P)
    IN IF n >= 0 THEN Ok(TakeSplit(self, n)) ELSE Incomplete(1)

\* seeded fault: end of input is not taken as a split point
split_at_position_complete_Streaming(self, P) ==
    LET n == Position(self.data, P)
    IN IF n >= 0 THEN Ok(TakeSplit(self, n)) ELSE Incomplete(1)

split_at_position_complete(self, P) ==
    LET res == split_at_position(self, P)
    IN IF res.kind = "Incomplete"
       THEN Ok(TakeSplit(self, InputLen(self.data)))
       ELSE res

\* seeded fault: a zero-length match is accepted
split_at_position1_complete_NoZeroCheck(self, P) ==
    LET n == Position(self.data, P)
    IN IF n >= 0 THEN Ok(TakeSplit(self, n))
       ELSE IF InputLen(self.data) = 0 THEN Error(self)
       ELSE Ok(TakeSplit(self, InputLen(self.data)))

split_at_position1_complete(self, P) ==
    LET n == Position(self.data, P)
    IN IF n = 0 THEN Error(self)
       ELSE IF n > 0 THEN Ok(TakeSplit(self, n))
       ELSE IF InputLen(self.data) = 0 THEN Error(self)
       ELSE Ok(TakeSplit(self, InputLen(self.data)))

\* the splitting a result performed: the count handed to take_split
SplitCalls(res, self, count) ==
    IF res.kind = "Ok"
    THEN MemchrScan(self, RangeFrom(count)) \cup MemchrScan(self, RangeTo(count))
    ELSE {}

(***************************************************************************)
(* State machine: a parser holds one span and repeatedly narrows it,       *)
(* continuing with the span (for a split: the remainder) it got back.      *)
(***************************************************************************)
CallRec(op, self, range, pred, out, res) ==
    [op |-> op, self |-> self, range |-> range, pred |-> pred,
     out |-> out, res |-> res]

NoResult == [kind |-> "None", rem |-> NoSpan, pre |-> NoSpan,
             err |-> NoSpan, needed |-> 0]

Scan(S) == [i \in DOMAIN scanned |-> IF i \in S THEN scanned[i] + 1 ELSE scanned[i]]

Init ==
    /\ input \in Inputs
    /\ \E handle_utf8 \in BOOLEAN :
          /\ span = New(input, handle_utf8)
          /\ call = CallRec("new", NoSpan, NoRange, {}, span, NoResult)
    /\ scanned = [i \in 0..(Len(input) - 1) |-> 0]
    /\ dropped = 0

Ranges(d) ==
    { RangeFull }
    \cup { RangeFrom(lo) : lo \in 0..Len(d.bytes) }
    \cup { RangeTo(hi) : hi \in 0..Len(d.bytes) }
    \cup { Range(lo, hi) : lo \in 0..Len(d.bytes), hi \in 0..Len(d.bytes) }

DoSlice ==
    \E range \in Ranges(span.data) :
        /\ ValidRange(span.data, range)
        /\ span' = Slice(span, range)
        /\ call' = CallRec("slice", span, range, {}, span', NoResult)
        /\ scanned' = Scan(MemchrScan(span, range))
        /\ dropped' = dropped + RangeLo(span.data, range)
        /\ UNCHANGED input

DoTake ==
    \E count \in 0..InputLen(span.data) :
        /\ ValidRange(span.data, RangeTo(count))
        /\ span' = Take(span, count)
        /\ call' = CallRec("take", span, RangeTo(count), {}, span', NoResult)
        /\ scanned' = Scan(MemchrScan(span, RangeTo(count)))
        /\ dropped' = dropped
        /\ UNCHANGED input

DoTakeSplit ==
    \E count \in 0..InputLen(span.data) :
        /\ ValidRange(span.data, RangeFrom(count))
        /\ LET res == Ok(TakeSplit(span, count))
           IN /\ span' = res.rem
              /\ call' = CallRec("take_split", span, RangeFrom(count), {}, NoSpan, res)
              /\ scanned' = Scan(SplitCalls(res, span, count))
        /\ dropped' = dropped + count
        /\ UNCHANGED input

\* what the caller does with an IResult: continue with the remainder on Ok,
\* keep its span otherwise
Continue(op, P, res) ==
    /\ span' = IF res.kind = "Ok" THEN res.rem ELSE span
    /\ call' = CallRec(op, span, NoRange, P, NoSpan, res)
    /\ scanned' = Scan(SplitCalls(res, span, StrOffset(span.data, res.rem.data)))
    /\ dropped' = dropped + Len(res.pre.data.bytes)
    /\ UNCHANGED input

DoSplitAtPosition ==
    \E P \in Predicates :
        Continue("split_at_position", P, split_at_position(span, P))

DoSplitAtPosition1 ==
    \E P \in Predicates :
        Continue("split_at_position1", P, split_at_position1(span, P))

DoSplitAtPositionComplete ==
    \E P \in Predicates :
        Continue("split_at_position_complete", P, split_at_position_complete(span, P))

DoSplitAtPosition1Complete ==
    \E P \in Predicates :
        Continue("split_at_position1_complete", P, split_at_position1_complete(span, P))

Next ==
    \/ DoSlice
    \/ DoTake
    \/ DoTakeSplit
    \/ DoSplitAtPosition
    \/ DoSplitAtPosition1
    \/ DoSplitAtPositionComplete
    \/ DoSplitAtPosition1Complete

Spec == Init /\ [][Next]_vars

(***************************************************************************)
(* Reference definitions the properties are stated against.  None of them  *)
(* is used by the model of the code above.                                 *)
(***************************************************************************)
\* code points of a valid UTF-8 byte string, by decoding it char by char
RECURSIVE CodePointsFrom(_, _)
CodePointsFrom(bytes, i) ==
    IF i > Len(bytes) THEN 0
    ELSE 1 + CodePointsFrom(bytes, i + Utf8Width(bytes[i]))

RefCount(bytes, utf8) == IF utf8 THEN CodePointsFrom(bytes, 1) ELSE Len(bytes)

NewlinesIn(bytes) == { i \in 1..Len(bytes) : bytes[i] = 10 }

AfterLastNewline(bytes) ==
    LET nl == NewlinesIn(bytes)
    IN IF nl = {} THEN bytes ELSE SubSeq(bytes, Max(nl) + 1, Len(bytes))

\* position of the byte at distance off from the start of the input,
\* found by scanning input[0 .. off) from the start
RefLine(off) == 1 + Cardinality(NewlinesIn(SubSeq(input, 1, off)))
RefCol(off, utf8) == 1 + RefCount(AfterLastNewline(SubSeq(input, 1, off)), utf8)

\* the spans the program holds in this state
LiveSpans ==
    { span, call.self, call.out, call.res.rem, call.res.pre, call.res.err }
        \ { NoSpan }

\* the narrowings the last operation performed: receiver, result, and the
\* number k of leading bytes of the receiver's data absent from the result
Narrowings ==
    IF call.op \in {"slice", "take"}
    THEN { [from |-> call.self, to |-> call.out,
            k |-> RangeLo(call.self.data, call.range)] }
    ELSE IF call.res.kind = "Ok"
    THEN { [from |-> call.self, to |-> call.res.rem,
            k |-> Len(call.res.pre.data.bytes)],
           [from |-> call.self, to |-> call.res.pre, k |-> 0] }
    ELSE {}

DroppedBytes(n) == SubSeq(n.from.data.bytes, 1, n.k)

\* index of the first char of bytes satisfying P, or -1
CharAt(bytes, i) == SubSeq(bytes, i + 1, i + Utf8Width(bytes[i + 1]))
Matches(bytes, P) ==
    { i \in 0..(Len(bytes) - 1) : IsCharBoundary(bytes, i) /\ CharAt(bytes, i) \in P }
Min(S) == CHOOSE x \in S : \A y \in S : x <= y
FirstMatch(bytes, P) == IF Matches(bytes, P) = {} THEN -1 ELSE Min(Matches(bytes, P))

(***************************************************************************)
(* C1: every span derived from new() by narrowings carries the line and    *)
(* column found by scanning the input from its start up to the span's      *)
(* byte_offset (line = 1 + newlines, col = 1 + bytes or code points after  *)
(* the last newline); so spans with equal byte_offset agree on line, col.  *)
(***************************************************************************)
C1_PositionMatchesReference ==
    /\ \A s \in LiveSpans :
          /\ s.line = RefLine(s.offset)
          /\ s.col = RefCol(s.offset, s.handle_utf8)
    /\ \A a, b \in LiveSpans :
          a.offset = b.offset => a.line = b.line /\ a.col = b.col

\* a span on a later line, past column 1, reached by a second narrowing
C1_Witness ==
    /\ call.op = "slice"
    /\ call.self.offset > 0
    /\ span.offset > call.self.offset
    /\ span.line > 1
    /\ span.col > 1

(***************************************************************************)
(* C2: byte_offset is the sum of the leading bytes dropped by the          *)
(* narrowings so far (each narrowing adds its k to the receiver's          *)
(* byte_offset), and data is the sub-range of the input starting there.    *)
(***************************************************************************)
C2_OffsetAdditivity ==
    /\ span.offset = dropped
    /\ \A n \in Narrowings : n.to.offset = n.from.offset + n.k
    /\ \A s \in LiveSpans :
          /\ s.offset + Len(s.data.bytes) <= Len(input)
          /\ s.data.bytes = SubSeq(input, s.offset + 1, s.offset + Len(s.data.bytes))
          /\ s.data.ptr = s.offset

\* a second narrowing that drops bytes, after a first that did
C2_Witness ==
    /\ call.self.offset > 0
    /\ \E n \in Narrowings : n.k > 0 /\ n.to = span
    /\ Len(span.data.bytes) > 0

(***************************************************************************)
(* C10: along the chain of narrowings each input byte is read by the       *)
(* newline scan at most once: exactly the dropped bytes have been scanned, *)
(* once each, so the total scanned never exceeds the input's length.       *)
(***************************************************************************)
C10_ScannedAtMostOnce ==
    /\ \A i \in DOMAIN scanned : scanned[i] = IF i < dropped THEN 1 ELSE 0
    /\ dropped <= Len(input)

\* the whole input consumed in more than one scanning narrowing
C10_Witness ==
    /\ Len(input) >= 3
    /\ span.offset = Len(input)
    /\ call.self.offset > 0
    /\ call.self.offset < Len(input)
    /\ \A i \in DOMAIN scanned : scanned[i] = 1

(***************************************************************************)
(* C3: a narrowing that drops k > 0 bytes holding no newline keeps the     *)
(* line and adds k to the column in byte mode, the number of code points   *)
(* in those bytes in UTF-8 mode; consuming a lone 4-byte code point from a *)
(* fresh span gives column 2 in UTF-8 mode and column 5 in byte mode.      *)
(***************************************************************************)
C3_ColumnCountingMode ==
    /\ \A n \in Narrowings :
          (n.k > 0 /\ NewlinesIn(DroppedBytes(n)) = {}) =>
              /\ n.to.line = n.from.line
              /\ n.to.col = n.from.col
                              + RefCount(DroppedBytes(n), n.from.handle_utf8)
    /\ (input = <<240, 159, 153, 140>> /\ span.offset = 4) =>
          span.col = IF span.handle_utf8 THEN 2 ELSE 5

\* the 4-byte code point consumed in UTF-8 mode
C3_Witness ==
    /\ input = <<240, 159, 153, 140>>
    /\ span.handle_utf8
    /\ \E n \in Narrowings : n.k = 4 /\ n.to = span /\ n.from.col = 1
    /\ span.col = 2

(***************************************************************************)
(* C4: when some char satisfies the predicate and n is the index of the    *)
(* first, split_at_position and split_at_position1 return Ok(take_split(n))*)
(* : the prefix is the first n bytes at the receiver's position, the       *)
(* remainder starts at the matching char with byte_offset advanced by n,   *)
(* and prefix ++ remainder is the receiver's data.  "test\n" split at the  *)
(* first line ending leaves exactly "\n".                                  *)
(***************************************************************************)
C4_SplitAtFirstMatch ==
    LET S == call.self
        r == call.res
        n == FirstMatch(S.data.bytes, call.pred)
    IN (call.op \in {"split_at_position", "split_at_position1"} /\ n >= 0) =>
          /\ r.kind = "Ok"
          /\ r.rem = TakeSplit(S, n)[1]
          /\ r.pre = TakeSplit(S, n)[2]
          /\ r.pre.data.bytes = SubSeq(S.data.bytes, 1, n)
          /\ r.pre.line = S.line
          /\ r.pre.col = S.col
          /\ r.pre.offset = S.offset
          /\ r.rem.data.bytes = SubSeq(S.data.bytes, n + 1, Len(S.data.bytes))
          /\ r.rem.offset = S.offset + n
          /\ r.pre.data.bytes \o r.rem.data.bytes = S.data.bytes
          /\ (S.data.bytes = <<116, 101, 115, 116, 10>> /\ call.pred = IsLineEnding)
                => r.rem.data.bytes = <<10>>

\* "test\n" split at its line ending
C4_Witness ==
    /\ call.op = "split_at_position"
    /\ call.self.data.bytes = <<116, 101, 115, 116, 10>>
    /\ call.pred = IsLineEnding
    /\ call.res.kind = "Ok"
    /\ call.res.rem.data.bytes = <<10>>
    /\ call.res.pre.data.bytes = <<116, 101, 115, 116>>

(***************************************************************************)
(* C5: a narrowing that drops k > 0 bytes holding m >= 1 newlines adds m   *)
(* to the line and sets the column to 1 + the count (bytes, or code points *)
(* in UTF-8 mode) of the dropped bytes after their last newline, whatever  *)
(* the receiver's column was.                                              *)
(***************************************************************************)
C5_NewlineResetsColumn ==
    \A n \in Narrowings :
        LET m == Cardinality(NewlinesIn(DroppedBytes(n)))
        IN (n.k > 0 /\ m >= 1) =>
              /\ n.to.line = n.from.line + m
              /\ n.to.col = 1 + RefCount(AfterLastNewline(DroppedBytes(n)),
                                         n.from.handle_utf8)

\* a newline dropped from a receiver that stood past column 1
C5_Witness ==
    \E n \in Narrowings :
        /\ n.k > 1
        /\ NewlinesIn(DroppedBytes(n)) # {}
        /\ n.from.col > 1
        /\ n.to.col > 1
        /\ n.to.line = n.from.line + 1

(***************************************************************************)
(* C6: a narrowing whose result starts at the receiver's first byte        *)
(* (take(n) for any n, slice(0..)) returns the receiver's line, col and    *)
(* byte_offset; take(n) holds the first n bytes.                           *)
(***************************************************************************)
C6_ZeroOffsetIdentity ==
    /\ \A n \in Narrowings :
          n.k = 0 =>
              /\ n.to.line = n.from.line
              /\ n.to.col = n.from.col
              /\ n.to.offset = n.from.offset
              /\ n.to.handle_utf8 = n.from.handle_utf8
    /\ call.op = "take" =>
          call.out.data.bytes = SubSeq(call.self.data.bytes, 1, call.range.hi)

\* take(n) of a proper prefix from a receiver on a later line, past column 1
C6_Witness ==
    /\ call.op = "take"
    /\ call.self.line > 1
    /\ call.self.col > 1
    /\ call.range.hi >= 1
    /\ call.range.hi < Len(call.self.data.bytes)
    /\ call.out = span

(***************************************************************************)
(* C7: split_at_position1_complete returns Error exactly when the first    *)
(* matching char is at index 0 or the data is empty; otherwise it returns  *)
(* Ok(take_split) at the first match, or at the end when nothing matches.  *)
(* The Error carries the receiver unchanged.                               *)
(***************************************************************************)
C7_Split1CompleteError ==
    LET S == call.self
        r == call.res
        n == FirstMatch(S.data.bytes, call.pred)
        len == Len(S.data.bytes)
        at == IF n > 0 THEN n ELSE len
    IN call.op = "split_at_position1_complete" =>
          /\ r.kind \in {"Ok", "Error"}
          /\ r.kind = "Error" <=> (n = 0 \/ len = 0)
          /\ r.kind = "Error" =>
                /\ r.err.data = S.data
                /\ r.err.line = S.line
                /\ r.err.col = S.col
                /\ r.err.offset = S.offset
                /\ r.err.handle_utf8 = S.handle_utf8
          /\ r.kind = "Ok" =>
                /\ r.rem = TakeSplit(S, at)[1]
                /\ r.pre = TakeSplit(S, at)[2]
                /\ r.pre.data.bytes = SubSeq(S.data.bytes, 1, at)
                /\ r.rem.data.bytes = SubSeq(S.data.bytes, at + 1, len)

\* a zero-length match in the middle of the input
C7_Witness ==
    /\ call.op = "split_at_position1_complete"
    /\ call.res.kind = "Error"
    /\ Len(call.self.data.bytes) > 0
    /\ call.self.offset > 0
    /\ call.res.err = call.self
    /\ span = call.self

(***************************************************************************)
(* C8: when no char satisfies the predicate, split_at_position and         *)
(* split_at_position1 return Incomplete(1); split_at_position_complete     *)
(* never returns Incomplete and then returns Ok with all the data as the   *)
(* prefix and an empty remainder positioned past it; when a char matches   *)
(* it returns what split_at_position returns.                              *)
(***************************************************************************)
C8_NotFoundOutcome ==
    LET S == call.self
        r == call.res
        n == FirstMatch(S.data.bytes, call.pred)
        len == Len(S.data.bytes)
    IN /\ (call.op \in {"split_at_position", "split_at_position1"} /\ n = -1) =>
              /\ r.kind = "Incomplete"
              /\ r.needed = 1
       /\ call.op = "split_at_position_complete" =>
              /\ r.kind = "Ok"
              /\ n = -1 =>
                    /\ r.pre.data.bytes = S.data.bytes
                    /\ r.pre.line = S.line
                    /\ r.pre.col = S.col
                    /\ r.pre.offset = S.offset
                    /\ r.rem.data.bytes = <<>>
                    /\ r.rem.offset = S.offset + len
                    /\ r.rem.line = S.line + Cardinality(NewlinesIn(S.data.bytes))
                    /\ r.rem.line = RefLine(r.rem.offset)
                    /\ r.rem.col = RefCol(r.rem.offset, S.handle_utf8)
              /\ n >= 0 => r = split_at_position(S, call.pred)

\* nothing matches in data that holds a newline, away from the input's start
C8_Witness ==
    /\ call.op = "split_at_position_complete"
    /\ FirstMatch(call.self.data.bytes, call.pred) = -1
    /\ NewlinesIn(call.self.data.bytes) # {}
    /\ Len(call.self.data.bytes) > 1
    /\ call.self.offset > 0
    /\ call.res.kind = "Ok"
    /\ call.res.rem.data.bytes = <<>>

(***************************************************************************)
(* C9 (as claimed): two spans are equal if and only if their data are      *)
(* equal, whatever their line, col, byte_offset and utf8_mode.             *)
(***************************************************************************)
C9_EqualityFromDataOnly ==
    \A a, b \in LiveSpans : SpanEq(a, b) <=> a.data.bytes = b.data.bytes

(***************************************************************************)
(* C9 (amended): two spans are equal if and only if their data, line, col, *)
(* byte_offset and utf8_mode are all equal; for spans derived from the     *)
(* same new() call that is if and only if their data and byte_offset are   *)
(* equal.                                                                  *)
(***************************************************************************)
C9_EqualityFieldwise ==
    \A a, b \in LiveSpans :
        /\ SpanEq(a, b) <=> /\ a.data.bytes = b.data.bytes
                            /\ a.line = b.line
                            /\ a.col = b.col
                            /\ a.offset = b.offset
                            /\ a.handle_utf8 = b.handle_utf8
        /\ SpanEq(a, b) <=> (a.data.bytes = b.data.bytes /\ a.offset = b.offset)

\* prefix and remainder of one split with the same content, and unequal
C9_Witness ==
    /\ call.res.kind = "Ok"
    /\ call.res.pre.data.bytes = call.res.rem.data.bytes
    /\ Len(call.res.pre.data.bytes) > 0
    /\ call.res.pre.offset # call.res.rem.offset
    /\ ~SpanEq(call.res.pre, call.res.rem)

====
